---- MODULE Spec2Model ----
(***************************************************************************)
(* aiogram-dependency: DependencyMiddleware.__call__ driving               *)
(* DependencyResolver over a shared DependencyRegistry.                    *)
(*                                                                         *)
(* Every middleware call is an asyncio task.  Tasks are scheduled          *)
(* cooperatively: `running` names the task that holds the event loop, and  *)
(* a task gives it up only inside an awaited provider, an awaited finalize *)
(* step or the awaited handler.  The resolver object (its _resolving set   *)
(* and active_contexts dict) and the registry are shared by all tasks of   *)
(* one middleware.                                                         *)
(***************************************************************************)
EXTENDS Integers, Sequences, FiniteSets, TLC

\* ------------------------------------------------------------------ bounds
\* Middleware calls started over the life of the model.
MaxCycles == 2
\* Depth of nested _resolve_single_dependency frames at which the
\* interpreter raises RecursionError.
MaxDepth == 3

Tasks == {"t1", "t2"}
NoTask == "none"
Before(u, t) == u = "t1" /\ t = "t2"

\* ------------------------------------------------------------------ values
\* A Python value: p is the provider that produced it ("None" for None),
\* n the number of the invocation that produced it (the object's identity),
\* k the cache key it was produced under, h the resource handle whose first
\* yield / entered value it is (0 when it is a plain value).
NoKey == [prefix |-> "none", id |-> 0]
NoneVal == [p |-> "None", n |-> 0, k |-> NoKey, h |-> 0]
Ambient(name) == [p |-> name, n |-> 0, k |-> NoKey, h |-> 0]

NoExc == [kind |-> "none", who |-> "none"]
Exc(kind, who) == [kind |-> kind, who |-> who]

\* ------------------------------------------------------------------ events
User1 == [has_user |-> TRUE, user_id |-> 1, has_chat |-> TRUE, chat_id |-> 5]
User2 == [has_user |-> TRUE, user_id |-> 2, has_chat |-> FALSE, chat_id |-> 0]
Chat1 == [has_user |-> FALSE, user_id |-> 0, has_chat |-> TRUE, chat_id |-> 1]
Anonymous == [has_user |-> FALSE, user_id |-> 0, has_chat |-> FALSE, chat_id |-> 0]
Events == {User1, User2, Chat1, Anonymous}

\* registry.get_cache_key(event, data): "user_<id>", else "chat_<id>", else
\* "global".
get_cache_key(ev) ==
    IF ev.has_user THEN [prefix |-> "user", id |-> ev.user_id]
    ELSE IF ev.has_chat THEN [prefix |-> "chat", id |-> ev.chat_id]
    ELSE [prefix |-> "global", id |-> 0]

Keys == {get_cache_key(e) : e \in Events}

\* ------------------------------------------------------------------ markers
\* A parameter of a callable.  marker = TRUE when it carries Depends(...);
\* dep is the provider reference ("None" when the marker has none).
Dep(name, dep, scope) == [name |-> name, marker |-> TRUE, dep |-> dep, scope |-> scope]
Plain(name) == [name |-> name, marker |-> FALSE, dep |-> "None", scope |-> "None"]

\* _is_dependency_param
_is_dependency_param(param) == param.marker

\* _get_dependency_from_param: (meta.dependency, meta.scope)
_get_dependency_from_param(param) ==
    IF param.marker THEN <<param.dep, param.scope>> ELSE <<"False", "None">>

\* ------------------------------------------------------------------ providers
Providers == {"get_service", "get_db", "get_repo", "get_config", "get_token",
              "get_lock", "get_session", "get_bad", "get_self", "get_ping",
              "get_pong", "get_note", "get_report"}

\* inspect.signature(dep).parameters of each provider.
Sig(dep) ==
    CASE dep = "get_repo" -> <<Dep("db", "get_db", "REQUEST")>>
      [] dep = "get_self" -> <<Dep("me", "get_self", "REQUEST")>>
      [] dep = "get_ping" -> <<Dep("pong", "get_pong", "REQUEST")>>
      [] dep = "get_pong" -> <<Dep("ping", "get_ping", "REQUEST")>>
      [] dep = "get_token" -> <<Plain("event"), Plain("service"), Plain("retries")>>
      [] dep = "get_report" -> <<Dep("opt", "None", "REQUEST")>>
      [] OTHER -> <<>>

\* The calling convention / return shape of each provider:
\* value, coro (async def), gen, agen, cm (returns a context manager),
\* acm (returns an async context manager).
Shape(dep) ==
    CASE dep = "get_db" -> "gen"
      [] dep = "get_session" -> "agen"
      [] dep = "get_lock" -> "cm"
      [] dep = "get_config" -> "coro"
      [] OTHER -> "value"

\* What invoking the provider can do: return/yield ("ok"), return None
\* ("none"), raise, or, for a generator, finish without a yield ("empty").
InvokeOutcomes(dep) ==
    CASE dep = "get_bad" -> {"raise"}
      [] dep = "get_db" -> {"ok", "empty"}
      [] dep = "get_note" -> {"none"}
      [] OTHER -> {"ok"}

\* What the finalize step of a provider's handle can do.
FinalizeOutcomes(dep) ==
    IF dep = "get_lock" THEN {"ok", "raise"} ELSE {"ok"}

\* ------------------------------------------------------------------ handlers
\* The callbacks a middleware call can be made for: their signatures
\* ("no_callback": data["handler"] has no callback attribute).
HandlerSig(h) ==
    CASE h = "no_callback" -> <<>>
      [] h = "plain" -> <<Plain("event"), Plain("normal_param")>>
      [] h = "service" -> <<Plain("event"), Dep("service", "get_service", "REQUEST"),
                            Dep("token", "get_token", "TRANSIENT"),
                            Dep("config", "get_config", "SINGLETON")>>
      [] h = "repo" -> <<Dep("repo", "get_repo", "REQUEST"),
                         Dep("token", "get_token", "REQUEST")>>
      [] h = "lock_bad" -> <<Dep("lock", "get_lock", "TRANSIENT"),
                             Dep("bad", "get_bad", "REQUEST")>>
      [] h = "session" -> <<Dep("opt", "None", "REQUEST"),
                            Dep("session", "get_session", "REQUEST")>>
      [] h = "report" -> <<Dep("service", "get_service", "REQUEST"),
                           Dep("note", "get_note", "REQUEST"),
                           Dep("report", "get_report", "REQUEST")>>
      [] h = "self" -> <<Dep("me", "get_self", "REQUEST")>>
      [] h = "ping" -> <<Dep("ping", "get_ping", "REQUEST")>>

\* The updates the dispatcher can deliver: a handler and the event it is
\* called for.
Update(h, e) == [handler |-> h, event |-> e]
Updates == {Update("no_callback", User2), Update("plain", User1),
            Update("plain", Chat1), Update("plain", Anonymous),
            Update("service", User1), Update("service", User2),
            Update("repo", User1),
            Update("lock_bad", User1), Update("report", User1),
            Update("session", User1), Update("session", User2),
            Update("self", User1), Update("ping", User2)}

\* ------------------------------------------------------------------ registry
\* DependencyRegistry: entries keyed by (provider, scope, cache key); the key
\* component of a SINGLETON entry is fixed, a TRANSIENT entry does not exist.
Slot(dep, scope, cache_key) ==
    IF scope = "SINGLETON" THEN <<dep, "SINGLETON", NoKey>>
    ELSE <<dep, "REQUEST", cache_key>>

\* registry.get_dependency(dep, scope, cache_key): the value, or None.
get_dependency(c, dep, scope, cache_key) ==
    IF scope = "TRANSIENT" THEN NoneVal
    ELSE IF Slot(dep, scope, cache_key) \in DOMAIN c
         THEN c[Slot(dep, scope, cache_key)]
         ELSE NoneVal

\* registry.set_dependency(dep, value, scope, cache_key): the new store.
set_dependency(c, dep, value, scope, cache_key) ==
    IF scope = "TRANSIENT" THEN c
    ELSE [s \in DOMAIN c \cup {Slot(dep, scope, cache_key)} |->
            IF s = Slot(dep, scope, cache_key) THEN value ELSE c[s]]

\* ------------------------------------------------------------------ state
VARIABLES
    running,          \* the task holding the event loop, or NoTask
    cycles,           \* middleware calls started so far
    pc,               \* per task: idle, top, merge, handler, done
    callback,         \* per task: the handler the call is for
    cache_key,        \* per task: resolve_dependencies' cache_key
    event,            \* per task: the event the call is for
    cyc,              \* per task: the number of its current call
    i,                \* per task: index into the handler's parameters
    resolved_deps,    \* per task: resolve_dependencies' resolved_deps
    data,             \* per task: the data mapping of the call
    stack,            \* per task: the _resolve_single_dependency frames
    handler_result,   \* per task: what the handler itself did
    outcome,          \* per task: how the middleware call ended
    resolving,        \* DependencyResolver._resolving
    active_contexts,  \* DependencyResolver.active_contexts, in insertion order
    cache,            \* the registry's store
    handles,          \* every generator / context manager ever opened
    ncalls,           \* per provider: how often it was invoked
    setlog            \* the set_dependency calls the resolver made, in order

vars == <<running, cycles, pc, callback, cache_key, event, cyc, i, resolved_deps, data,
          stack, handler_result, outcome, resolving, active_contexts, cache, handles, ncalls,
          setlog>>

taskvars == <<pc, callback, cache_key, event, cyc, i, resolved_deps, data,
              handler_result, outcome>>

\* A dict as a function over its keys.
EmptyDict == [x \in {} |-> NoneVal]
DictSet(d, k, v) == [x \in DOMAIN d \cup {k} |-> IF x = k THEN v ELSE d[x]]

\* The data mapping aiogram hands to the middleware.
InitData == [x \in {"handler", "bot"} |-> Ambient(x)]

Init ==
    /\ running = NoTask
    /\ cycles = 0
    /\ pc = [t \in Tasks |-> "idle"]
    /\ callback = [t \in Tasks |-> "plain"]
    /\ cache_key = [t \in Tasks |-> NoKey]
    /\ event = [t \in Tasks |-> User1]
    /\ cyc = [t \in Tasks |-> 0]
    /\ i = [t \in Tasks |-> 1]
    /\ resolved_deps = [t \in Tasks |-> EmptyDict]
    /\ data = [t \in Tasks |-> InitData]
    /\ stack = [t \in Tasks |-> <<>>]
    /\ handler_result = [t \in Tasks |-> NoExc]
    /\ outcome = [t \in Tasks |-> NoExc]
    /\ resolving = {}
    /\ active_contexts = <<>>
    /\ cache = [x \in {} |-> NoneVal]
    /\ handles = <<>>
    /\ ncalls = [p \in Providers |-> 0]
    /\ setlog = <<>>

\* ------------------------------------------------------------------ frames
\* One activation of _resolve_single_dependency.  name is the parameter of
\* the caller the result is for; phase is the place in the body:
\* enter (57-62), params (65-88), await_invoke (92/94/107, suspended),
\* finally (115), cleanup (152-178), await_fin (158/168, suspended).
\* inv is the number of the awaited invocation of the provider.  Of the
\* cleanup pass in progress: all is the copied item list, snap what is left
\* of it, tried the handles whose finalize step was called, failed those
\* whose finalize step raised, errors the length of the errors list.
Frame(name, dep, scope) ==
    [name |-> name, dep |-> dep, scope |-> scope, phase |-> "enter", idx |-> 1,
     dep_kwargs |-> EmptyDict, inv |-> 0, val |-> NoneVal, exc |-> NoExc,
     snap |-> <<>>, errors |-> 0, all |-> <<>>, tried |-> {}, failed |-> {}]

Depth(t) == Len(stack[t])
Top(t) == stack[t][Len(stack[t])]
InFrame(t) == running = t /\ pc[t] = "top" /\ stack[t] # <<>>
SetTop(t, f) == [stack EXCEPT ![t] = [@ EXCEPT ![Len(@)] = f]]
Push(t, f) == [stack EXCEPT ![t] = Append(@, f)]
Pop(st) == SubSeq(st, 1, Len(st) - 1)

\* The caller's frame after the callee returned v for its parameter name.
ParentGot(parent, name, v) ==
    [parent EXCEPT !.dep_kwargs = DictSet(@, name, v), !.idx = @ + 1]

\* The callee's error caught by the caller, which goes on to its next
\* parameter.
ParentRaised_Swallowed(parent, e) == [parent EXCEPT !.idx = @ + 1]

\* The caller's frame after the callee raised e: control is in its finally.
ParentRaised(parent, e) == [parent EXCEPT !.exc = e, !.phase = "finally"]

\* _resolve_single_dependency returns v to its caller (40-43 or 85-88).
ReturnToCaller(t, v) ==
    LET f == Top(t) IN
    IF Depth(t) = 1
    THEN /\ stack' = [stack EXCEPT ![t] = <<>>]
         /\ resolved_deps' = [resolved_deps EXCEPT ![t] = DictSet(@, f.name, v)]
         /\ i' = [i EXCEPT ![t] = @ + 1]
    ELSE /\ stack' = [stack EXCEPT ![t] =
                 [Pop(@) EXCEPT ![Len(@) - 1] = ParentGot(@, f.name, v)]]
         /\ UNCHANGED <<resolved_deps, i>>

\* _resolve_single_dependency raises e: into the caller's finally, or out of
\* resolve_dependencies and the middleware call.
RaiseToCaller(t, e) ==
    IF Depth(t) = 1
    THEN /\ stack' = [stack EXCEPT ![t] = <<>>]
         /\ pc' = [pc EXCEPT ![t] = "done"]
         /\ outcome' = [outcome EXCEPT ![t] = e]
         /\ running' = NoTask
    ELSE /\ stack' = [stack EXCEPT ![t] =
                 [Pop(@) EXCEPT ![Len(@) - 1] = ParentRaised(@, e)]]
         /\ UNCHANGED <<pc, outcome, running>>

\* ------------------------------------------------------------------ middleware
\* The update left out.
MergeData_Skipped(d, r) == d

\* The mapping replaced by the resolved values instead of updated.
MergeData_Replaced(d, r) == r

\* data.update(resolved_deps)
MergeData(d, r) == [x \in DOMAIN d \cup DOMAIN r |-> IF x \in DOMAIN r THEN r[x] ELSE d[x]]

\* return await handler(event, data): the handler's result or error is the
\* call's.
MwOutcome(r) == r

\* The key taken from the chat although the event has a sender.
ResolveCacheKey_ChatFirst(ev) ==
    IF ev.has_chat THEN [prefix |-> "chat", id |-> ev.chat_id]
    ELSE get_cache_key(ev)

\* 23: cache_key = self.registry.get_cache_key(event, data)
ResolveCacheKey(ev) == get_cache_key(ev)

\* DependencyMiddleware.__call__ is entered for a handler and an event:
\* resolve_dependencies starts (16-24).  The tasks being interchangeable,
\* the update goes to the first one that is free.
MwCall(t) ==
    /\ running = NoTask
    /\ pc[t] \in {"idle", "done"}
    /\ \A u \in Tasks : Before(u, t) => pc[u] \notin {"idle", "done"}
    /\ cycles < MaxCycles
    /\ \E u \in Updates :
          /\ callback' = [callback EXCEPT ![t] = u.handler]
          /\ event' = [event EXCEPT ![t] = u.event]
          /\ cache_key' = [cache_key EXCEPT ![t] = ResolveCacheKey(u.event)]
    /\ running' = t
    /\ cycles' = cycles + 1
    /\ cyc' = [cyc EXCEPT ![t] = cycles + 1]
    /\ pc' = [pc EXCEPT ![t] = "top"]
    /\ i' = [i EXCEPT ![t] = 1]
    /\ resolved_deps' = [resolved_deps EXCEPT ![t] = EmptyDict]
    /\ data' = [data EXCEPT ![t] = InitData]
    /\ handler_result' = [handler_result EXCEPT ![t] = NoExc]
    /\ outcome' = [outcome EXCEPT ![t] = NoExc]
    /\ UNCHANGED <<stack, resolving, active_contexts, cache, handles, ncalls, setlog>>


AtParam(t) ==
    /\ running = t /\ pc[t] = "top" /\ stack[t] = <<>>
    /\ callback[t] # "no_callback"
    /\ i[t] <= Len(HandlerSig(callback[t]))

Param(t) == HandlerSig(callback[t])[i[t]]

\* 26-27: a parameter without a marker is passed over.
TopSkip(t) ==
    /\ AtParam(t)
    /\ ~_is_dependency_param(Param(t))
    /\ i' = [i EXCEPT ![t] = @ + 1]
    /\ UNCHANGED <<running, cycles, pc, callback, cache_key, event, cyc, resolved_deps, data,
                   stack, handler_result, outcome, resolving, active_contexts,
                   cache, handles, ncalls, setlog>>

\* 28-32: a marker without a provider gives None.
TopNone(t) ==
    /\ AtParam(t)
    /\ _is_dependency_param(Param(t))
    /\ _get_dependency_from_param(Param(t))[1] = "None"
    /\ resolved_deps' = [resolved_deps EXCEPT ![t] = DictSet(@, Param(t).name, NoneVal)]
    /\ i' = [i EXCEPT ![t] = @ + 1]
    /\ UNCHANGED <<running, cycles, pc, callback, cache_key, event, cyc, data,
                   stack, handler_result, outcome, resolving, active_contexts,
                   cache, handles, ncalls, setlog>>

\* 35-38: the provider is in _resolving: ValueError("Circular dependency
\* detected: <name>") leaves resolve_dependencies and the middleware call.
TopCircular(t) ==
    /\ AtParam(t)
    /\ _is_dependency_param(Param(t))
    /\ _get_dependency_from_param(Param(t))[1] # "None"
    /\ _get_dependency_from_param(Param(t))[1] \in resolving
    /\ pc' = [pc EXCEPT ![t] = "done"]
    /\ outcome' = [outcome EXCEPT ![t] =
            Exc("CircularDependency", _get_dependency_from_param(Param(t))[1])]
    /\ running' = NoTask
    /\ UNCHANGED <<cycles, callback, cache_key, event, cyc, i, resolved_deps, data,
                   stack, handler_result, resolving, active_contexts, cache,
                   handles, ncalls, setlog>>

\* 40-42: _resolve_single_dependency is called for the parameter.
TopCall(t) ==
    /\ AtParam(t)
    /\ _is_dependency_param(Param(t))
    /\ _get_dependency_from_param(Param(t))[1] # "None"
    /\ _get_dependency_from_param(Param(t))[1] \notin resolving
    /\ stack' = Push(t, Frame(Param(t).name,
                              _get_dependency_from_param(Param(t))[1],
                              _get_dependency_from_param(Param(t))[2]))
    /\ UNCHANGED <<running, cycles, taskvars, resolving, active_contexts, cache,
                   handles, ncalls, setlog>>

\* 44-45: resolve_dependencies returns resolved_deps ({} when data["handler"]
\* has no callback).
ResolveReturn(t) ==
    /\ running = t /\ pc[t] = "top" /\ stack[t] = <<>>
    /\ \/ callback[t] = "no_callback"
       \/ i[t] > Len(HandlerSig(callback[t]))
    /\ pc' = [pc EXCEPT ![t] = "merge"]
    /\ UNCHANGED <<running, cycles, callback, cache_key, event, cyc, i, resolved_deps, data,
                   stack, handler_result, outcome, resolving, active_contexts,
                   cache, handles, ncalls, setlog>>

\* middleware.py 21-22: data.update(resolved_deps); the handler is called.
MwUpdate(t) ==
    /\ running = t /\ pc[t] = "merge"
    /\ data' = [data EXCEPT ![t] = MergeData(@, resolved_deps[t])]
    /\ pc' = [pc EXCEPT ![t] = "handler"]
    /\ UNCHANGED <<running, cycles, callback, cache_key, event, cyc, i, resolved_deps,
                   stack, handler_result, outcome, resolving, active_contexts,
                   cache, handles, ncalls, setlog>>

\* middleware.py 22: the awaited handler returns or raises, and so does the
\* middleware call.
HandlerDone(t) ==
    /\ running = t /\ pc[t] = "handler"
    /\ \E r \in {"HandlerResult", "HandlerError"} :
          /\ handler_result' = [handler_result EXCEPT ![t] = Exc(r, callback[t])]
          /\ outcome' = [outcome EXCEPT ![t] = MwOutcome(Exc(r, callback[t]))]
    /\ pc' = [pc EXCEPT ![t] = "done"]
    /\ running' = NoTask
    /\ UNCHANGED <<cycles, callback, cache_key, event, cyc, i, resolved_deps, data,
                   stack, resolving, active_contexts, cache, handles,
                   ncalls, setlog>>

\* ------------------------------------------------------------------ scheduling
\* The task is inside an awaited provider, finalize step or handler.
AtAwait(t) ==
    \/ pc[t] = "handler"
    \/ /\ pc[t] = "top" /\ stack[t] # <<>>
       /\ Top(t).phase \in {"await_invoke", "await_fin"}

\* The awaited code suspends: the event loop is free.
Yield(t) ==
    /\ running = t /\ AtAwait(t)
    /\ running' = NoTask
    /\ UNCHANGED <<cycles, taskvars, stack, resolving, active_contexts, cache,
                   handles, ncalls, setlog>>

\* The event loop resumes a suspended task.
Resume(t) ==
    /\ running = NoTask /\ AtAwait(t)
    /\ running' = t
    /\ UNCHANGED <<cycles, taskvars, stack, resolving, active_contexts, cache,
                   handles, ncalls, setlog>>

\* ------------------------------------------------------------------ resolver
\* The lookup made under one fixed key instead of the call's cache_key.
CacheRead_FixedKey(c, dep, scope, key) ==
    get_dependency(c, dep, scope, [prefix |-> "user", id |-> 1])

\* The lookup made with the default scope instead of the marker's.
CacheRead_AsRequest(c, dep, scope, key) == get_dependency(c, dep, "REQUEST", key)

\* The write made with the default scope instead of the marker's.
CacheWrite_AsRequest(c, dep, value, scope, key) ==
    set_dependency(c, dep, value, "REQUEST", key)

\* 57: self.registry.get_dependency(dep, scope, cache_key)
CacheRead(c, dep, scope, key) == get_dependency(c, dep, scope, key)

\* 112: self.registry.set_dependency(dep, resolved_value, scope, cache_key)
CacheWrite(c, dep, value, scope, key) == set_dependency(c, dep, value, scope, key)

\* 58-59: the cached value is not None and is returned at once.
SingleCacheHit(t) ==
    /\ InFrame(t)
    /\ Top(t).phase = "enter"
    /\ CacheRead(cache, Top(t).dep, Top(t).scope, cache_key[t]) # NoneVal
    /\ ReturnToCaller(t, CacheRead(cache, Top(t).dep, Top(t).scope, cache_key[t]))
    /\ UNCHANGED <<running, cycles, pc, callback, cache_key, event, cyc, data,
                   handler_result, outcome, resolving, active_contexts, cache,
                   handles, ncalls, setlog>>

\* 62: self._resolving.add(dep), then the try block is entered.
SingleAddLock(t) ==
    /\ InFrame(t)
    /\ Top(t).phase = "enter"
    /\ CacheRead(cache, Top(t).dep, Top(t).scope, cache_key[t]) = NoneVal
    /\ resolving' = resolving \cup {Top(t).dep}
    /\ stack' = SetTop(t, [Top(t) EXCEPT !.phase = "params"])
    /\ UNCHANGED <<running, cycles, taskvars, active_contexts, cache, handles,
                   ncalls, setlog>>

AtDepParam(t) ==
    /\ InFrame(t)
    /\ Top(t).phase = "params"
    /\ Top(t).idx <= Len(Sig(Top(t).dep))

DepParam(t) == Sig(Top(t).dep)[Top(t).idx]

\* 71-78: the names a provider parameter is filled from without resolution.
HasAmbient(t, name) ==
    name \in {"event", "data"} \cup DOMAIN data[t] \cup DOMAIN resolved_deps[t]

AmbientValue(t, name) ==
    IF name \in {"event", "data"} THEN Ambient(name)
    ELSE IF name \in DOMAIN data[t] THEN data[t][name]
    ELSE resolved_deps[t][name]

\* 71-78: event, data, a key of data, or a name already in resolved_deps.
ParamAmbient(t) ==
    /\ AtDepParam(t)
    /\ HasAmbient(t, DepParam(t).name)
    /\ stack' = SetTop(t, [Top(t) EXCEPT
            !.dep_kwargs = DictSet(@, DepParam(t).name, AmbientValue(t, DepParam(t).name)),
            !.idx = @ + 1])
    /\ UNCHANGED <<running, cycles, taskvars, resolving, active_contexts, cache,
                   handles, ncalls, setlog>>

\* 81-87: a marker parameter: _resolve_single_dependency recurses.  At the
\* interpreter's recursion limit the call raises RecursionError instead.
ParamNested(t) ==
    /\ AtDepParam(t)
    /\ ~HasAmbient(t, DepParam(t).name)
    /\ _is_dependency_param(DepParam(t))
    /\ IF Depth(t) < MaxDepth
       THEN stack' = Push(t, Frame(DepParam(t).name,
                                   _get_dependency_from_param(DepParam(t))[1],
                                   _get_dependency_from_param(DepParam(t))[2]))
       ELSE stack' = SetTop(t, [Top(t) EXCEPT
                !.exc = Exc("RecursionError", Top(t).dep), !.phase = "finally"])
    /\ UNCHANGED <<running, cycles, taskvars, resolving, active_contexts, cache,
                   handles, ncalls, setlog>>

\* 69-88: any other parameter gets no argument.
ParamSkip(t) ==
    /\ AtDepParam(t)
    /\ ~HasAmbient(t, DepParam(t).name)
    /\ ~_is_dependency_param(DepParam(t))
    /\ stack' = SetTop(t, [Top(t) EXCEPT !.idx = @ + 1])
    /\ UNCHANGED <<running, cycles, taskvars, resolving, active_contexts, cache,
                   handles, ncalls, setlog>>

\* ------------------------------------------------------------------ handles
Resource(shape) == shape \in {"gen", "agen", "cm", "acm"}

\* A generator paused at its first yield, or an entered context manager.
\* fin counts the runs of its finalize step (the post-yield code, __exit__).
NewHandle(t, dep) ==
    [prov |-> dep, key |-> cache_key[t], owner |-> t, cyc |-> cyc[t],
     shape |-> Shape(dep), st |-> "open", fin |-> 0]

HasKey(ac, key) == \E n \in 1..Len(ac) : ac[n].key = key

\* 122 / 129 / 136 / 146: self.active_contexts[key] = handle
Register(ac, key, h) ==
    IF HasKey(ac, key)
    THEN [n \in 1..Len(ac) |-> IF ac[n].key = key THEN [key |-> key, h |-> h] ELSE ac[n]]
    ELSE Append(ac, [key |-> key, h |-> h])

\* 173: del self.active_contexts[dep_name]
DictDel(ac, key) == SelectSeq(ac, LAMBDA e : e.key # key)

\* The value a provider invocation produced under the task's cache key.
Produced(t, dep, n) ==
    [p |-> dep, n |-> n, k |-> cache_key[t],
     h |-> IF Resource(Shape(dep)) THEN Len(handles) + 1 ELSE 0]

\* 91-113: the provider's n-th invocation had outcome o.  ok: a resource shape
\* registers its handle; empty (138-140, 148-150): the generator stopped
\* without a yield, the value is None and nothing is registered; none: the
\* provider returned None.  Either way
\* the value is written to the registry and returned through the finally
\* block.  raise: the finally block runs with the error.
Invoked(t, o, n) ==
    LET f == Top(t)
        v == IF o \in {"empty", "none"} THEN NoneVal ELSE Produced(t, f.dep, n)
        opened == o = "ok" /\ Resource(Shape(f.dep))
    IN
    IF o = "raise"
    THEN /\ stack' = SetTop(t, [f EXCEPT !.exc = Exc("ProviderError", f.dep),
                                         !.phase = "finally"])
         /\ UNCHANGED <<active_contexts, cache, handles, setlog>>
    ELSE /\ handles' = IF opened THEN Append(handles, NewHandle(t, f.dep)) ELSE handles
         /\ active_contexts' = IF opened
                               THEN Register(active_contexts, cache_key[t], Len(handles) + 1)
                               ELSE active_contexts
         /\ cache' = CacheWrite(cache, f.dep, v, f.scope, cache_key[t])
         /\ setlog' = Append(setlog, [dep |-> f.dep, scope |-> f.scope,
                                      key |-> cache_key[t], val |-> v])
         /\ stack' = SetTop(t, [f EXCEPT !.val = v, !.phase = "finally"])

\* 65: inspect.signature(dep) of a dep that is None (the marker of a
\* provider's parameter had no provider): TypeError, into the finally block.
SignatureError(t) ==
    /\ InFrame(t)
    /\ Top(t).phase = "params"
    /\ Top(t).dep = "None"
    /\ stack' = SetTop(t, [Top(t) EXCEPT !.exc = Exc("TypeError", "None"),
                                         !.phase = "finally"])
    /\ UNCHANGED <<running, cycles, taskvars, resolving, active_contexts, cache,
                   handles, ncalls, setlog>>

AtInvoke(t) ==
    /\ InFrame(t)
    /\ Top(t).phase = "params"
    /\ Top(t).dep # "None"
    /\ Top(t).idx > Len(Sig(Top(t).dep))

\* 97-105: a plain function, a generator function or a function returning a
\* context manager runs without suspending.
InvokeSync(t) ==
    /\ AtInvoke(t)
    /\ Shape(Top(t).dep) \in {"value", "gen", "cm"}
    /\ ncalls' = [ncalls EXCEPT ![Top(t).dep] = @ + 1]
    /\ \E o \in InvokeOutcomes(Top(t).dep) : Invoked(t, o, ncalls[Top(t).dep] + 1)
    /\ UNCHANGED <<running, cycles, taskvars, resolving>>

\* 92 / 94 / 107: await dep(...), await async_gen.__anext__(),
\* await context.__aenter__(): the provider's code is running.
InvokeAwait(t) ==
    /\ AtInvoke(t)
    /\ Shape(Top(t).dep) \in {"coro", "agen", "acm"}
    /\ ncalls' = [ncalls EXCEPT ![Top(t).dep] = @ + 1]
    /\ stack' = SetTop(t, [Top(t) EXCEPT !.phase = "await_invoke",
                                         !.inv = ncalls[Top(t).dep] + 1])
    /\ UNCHANGED <<running, cycles, taskvars, resolving, active_contexts, cache,
                   handles, setlog>>

\* The awaited provider code completes.
InvokeResume(t) ==
    /\ InFrame(t)
    /\ Top(t).phase = "await_invoke"
    /\ \E o \in InvokeOutcomes(Top(t).dep) : Invoked(t, o, Top(t).inv)
    /\ UNCHANGED <<running, cycles, taskvars, resolving, ncalls>>

\* ------------------------------------------------------------------ cleanup
\* 115-117: the finally block calls _cleanup_active_context, which copies the
\* items of active_contexts (153-154).
CleanupStart(t) ==
    /\ InFrame(t)
    /\ Top(t).phase = "finally"
    /\ stack' = SetTop(t, [Top(t) EXCEPT !.phase = "cleanup",
                                         !.snap = active_contexts, !.errors = 0,
                                         !.all = active_contexts,
                                         !.tried = {}, !.failed = {}])
    /\ UNCHANGED <<running, cycles, taskvars, resolving, active_contexts, cache,
                   handles, ncalls, setlog>>

Item(t) == Top(t).snap[1]
ItemHandle(t) == handles[Item(t).h]

\* The finalize step's error not caught per handle: it ends the pass and
\* leaves _cleanup_active_context.
Finalized_Uncaught(t, o) ==
    LET f == Top(t) IN
    IF o = "ok" /\ (\E n \in 1..Len(active_contexts) : active_contexts[n].key = f.snap[1].key)
    THEN /\ active_contexts' = SelectSeq(active_contexts, LAMBDA e : e.key # f.snap[1].key)
         /\ stack' = SetTop(t, [f EXCEPT !.snap = Tail(@), !.phase = "cleanup",
                                         !.tried = @ \cup {f.snap[1].h}])
    ELSE /\ active_contexts' = active_contexts
         /\ stack' = SetTop(t, [f EXCEPT !.snap = <<>>, !.phase = "cleanup",
                                         !.exc = Exc("FinalizeError", f.dep),
                                         !.tried = @ \cup {f.snap[1].h},
                                         !.failed = @ \cup {f.snap[1].h}])

\* 173-175: after the finalize step of the item.  ok: the item's key is
\* deleted from active_contexts (KeyError, caught, when it is gone).  raise:
\* the error is collected and the entry stays.
Finalized(t, o) ==
    LET f == Top(t) IN
    IF o = "ok" /\ HasKey(active_contexts, Item(t).key)
    THEN /\ active_contexts' = DictDel(active_contexts, Item(t).key)
         /\ stack' = SetTop(t, [f EXCEPT !.snap = Tail(@), !.phase = "cleanup",
                                         !.tried = @ \cup {Item(t).h}])
    ELSE /\ active_contexts' = active_contexts
         /\ stack' = SetTop(t, [f EXCEPT !.snap = Tail(@), !.phase = "cleanup",
                                         !.errors = @ + 1,
                                         !.tried = @ \cup {Item(t).h},
                                         !.failed = IF o = "raise" THEN @ \cup {Item(t).h}
                                                    ELSE @])

\* The handle after one run of its finalize step with outcome o.  A generator
\* is finished whether its post-yield code returned or raised.
Closed(hd, o) ==
    [hd EXCEPT !.fin = @ + 1,
               !.st = IF o = "ok" \/ hd.shape \in {"gen", "agen"} THEN "closed" ELSE "failed"]

\* 162-166 / 170-171 and the steps of 156-160 that do not suspend:
\* next(gen) runs the post-yield code of a paused generator (StopIteration
\* is the success), and raises StopIteration at once on a finished one;
\* __exit__ is called on a context manager; __anext__ on a finished async
\* generator raises StopAsyncIteration, on a running one RuntimeError.
CleanupSync(t) ==
    /\ InFrame(t)
    /\ Top(t).phase = "cleanup"
    /\ Top(t).snap # <<>>
    /\ \/ /\ ItemHandle(t).shape = "gen" /\ ItemHandle(t).st = "open"
          /\ \E o \in FinalizeOutcomes(ItemHandle(t).prov) :
                /\ handles' = [handles EXCEPT ![Item(t).h] = Closed(@, o)]
                /\ Finalized(t, o)
       \/ /\ ItemHandle(t).shape = "cm"
          /\ \E o \in FinalizeOutcomes(ItemHandle(t).prov) :
                /\ handles' = [handles EXCEPT ![Item(t).h] = Closed(@, o)]
                /\ Finalized(t, o)
       \/ /\ ItemHandle(t).shape \in {"gen", "agen"} /\ ItemHandle(t).st = "closed"
          /\ handles' = handles
          /\ Finalized(t, "ok")
       \/ /\ ItemHandle(t).shape = "agen" /\ ItemHandle(t).st = "exiting"
          /\ handles' = handles
          /\ Finalized(t, "raise")
    /\ UNCHANGED <<running, cycles, taskvars, resolving, cache, ncalls, setlog>>

\* 158 / 168: await context.__anext__() on a paused async generator, await
\* context.__aexit__(None, None, None): the finalize code is running.
CleanupAwait(t) ==
    /\ InFrame(t)
    /\ Top(t).phase = "cleanup"
    /\ Top(t).snap # <<>>
    /\ \/ ItemHandle(t).shape = "agen" /\ ItemHandle(t).st = "open"
       \/ ItemHandle(t).shape = "acm"
    /\ handles' = [handles EXCEPT ![Item(t).h] = [@ EXCEPT !.fin = @ + 1, !.st = "exiting"]]
    /\ stack' = SetTop(t, [Top(t) EXCEPT !.phase = "await_fin"])
    /\ UNCHANGED <<running, cycles, taskvars, resolving, active_contexts, cache,
                   ncalls, setlog>>

\* The awaited finalize code completes.
CleanupResume(t) ==
    /\ InFrame(t)
    /\ Top(t).phase = "await_fin"
    /\ \E o \in FinalizeOutcomes(ItemHandle(t).prov) :
          /\ handles' = [handles EXCEPT ![Item(t).h] =
                [Closed(@, o) EXCEPT !.fin = ItemHandle(t).fin]]
          /\ Finalized(t, o)
    /\ UNCHANGED <<running, cycles, taskvars, resolving, cache, ncalls, setlog>>

\* 118: self._resolving.discard(dep)
Discard(r, dep) == r \ {dep}

AtExit(t) ==
    /\ InFrame(t)
    /\ Top(t).phase = "cleanup"
    /\ Top(t).snap = <<>>

\* 113, 118: the lock is removed and the value returned.
SingleReturn(t) ==
    /\ AtExit(t)
    /\ Top(t).exc = NoExc
    /\ resolving' = Discard(resolving, Top(t).dep)
    /\ ReturnToCaller(t, Top(t).val)
    /\ UNCHANGED <<running, cycles, pc, callback, cache_key, event, cyc, data,
                   handler_result, outcome, active_contexts, cache, handles,
                   ncalls, setlog>>

\* 118: the lock is removed and the error propagates.
SingleRaise(t) ==
    /\ AtExit(t)
    /\ Top(t).exc # NoExc
    /\ resolving' = Discard(resolving, Top(t).dep)
    /\ RaiseToCaller(t, Top(t).exc)
    /\ UNCHANGED <<cycles, callback, cache_key, event, cyc, i, resolved_deps, data,
                   handler_result, active_contexts, cache, handles, ncalls, setlog>>

\* ------------------------------------------------------------------ system
Next ==
    \E t \in Tasks :
        \/ MwCall(t)
        \/ TopSkip(t)
        \/ TopNone(t)
        \/ TopCircular(t)
        \/ TopCall(t)
        \/ ResolveReturn(t)
        \/ MwUpdate(t)
        \/ HandlerDone(t)
        \/ Yield(t)
        \/ Resume(t)
        \/ SingleCacheHit(t)
        \/ SingleAddLock(t)
        \/ ParamAmbient(t)
        \/ ParamNested(t)
        \/ ParamSkip(t)
        \/ SignatureError(t)
        \/ InvokeSync(t)
        \/ InvokeAwait(t)
        \/ InvokeResume(t)
        \/ CleanupStart(t)
        \/ CleanupSync(t)
        \/ CleanupAwait(t)
        \/ CleanupResume(t)
        \/ SingleReturn(t)
        \/ SingleRaise(t)

Spec == Init /\ [][Next]_vars

\* ------------------------------------------------------------------ properties
Markers(sig) == {n \in 1..Len(sig) : _is_dependency_param(sig[n])}

\* The handles opened in the task's current middleware call.
HandlesOf(t) == {h \in 1..Len(handles) : handles[h].cyc = cyc[t]}

\* The providers a provider's own markers name, and those it reaches.
NestedDeps(dep) == {Sig(dep)[n].dep : n \in Markers(Sig(dep))} \cap Providers

RECURSIVE ReachIn(_, _)
ReachIn(S, n) ==
    IF n = 0 THEN S
    ELSE ReachIn(S \cup UNION {NestedDeps(d) : d \in S}, n - 1)

Needs(dep) == ReachIn(NestedDeps(dep), Cardinality(Providers))
Cyclic(dep) == dep \in Needs(dep)

HandlerDeps(h) == {HandlerSig(h)[n].dep : n \in Markers(HandlerSig(h))} \cap Providers

\* The handler needs a provider that depends on itself.
NeedsCycle(h) ==
    \E d \in HandlerDeps(h) : Cyclic(d) \/ \E e \in Needs(d) : Cyclic(e)

\* The n-th set_dependency call of setlog is the last one made for its
\* provider and scope under its key / under any key.
LastForKey(n) ==
    \A m \in (n + 1)..Len(setlog) :
        ~(/\ setlog[m].dep = setlog[n].dep
          /\ setlog[m].scope = setlog[n].scope
          /\ setlog[m].key = setlog[n].key)
LastForAnyKey(n) ==
    \A m \in (n + 1)..Len(setlog) :
        ~(setlog[m].dep = setlog[n].dep /\ setlog[m].scope = setlog[n].scope)

\* C1: while the handler executes, no handle opened for its call has been
\* finalized.
C1_HandlesOpenWhileHandlerRuns ==
    \A t \in Tasks :
        pc[t] = "handler" =>
            \A h \in HandlesOf(t) : handles[h].fin = 0 /\ handles[h].st = "open"

\* The call that opened the handle is over.
CycleOver(h) ==
    \/ cyc[handles[h].owner] > handles[h].cyc
    \/ pc[handles[h].owner] = "done"

\* C2: every handle is finalized exactly once: never twice, and once its
\* call is over it has been finalized.
C2_EveryHandleFinalizedExactlyOnce ==
    \A h \in 1..Len(handles) :
        /\ handles[h].fin <= 1
        /\ CycleOver(h) => handles[h].fin = 1

\* C3: a call for a handler that needs a self-dependent provider ends with a
\* circular-dependency error naming a provider of the cycle, which was not
\* invoked.
C3_CycleRaisesCircularError ==
    \A t \in Tasks :
        (pc[t] = "done" /\ NeedsCycle(callback[t])) =>
            /\ outcome[t].kind = "CircularDependency"
            /\ outcome[t].who \in Providers
            /\ Cyclic(outcome[t].who)
            /\ ncalls[outcome[t].who] = 0

\* C4: a circular-dependency error names a provider that depends on itself;
\* calls over an acyclic graph never end with one.
C4_CircularErrorOnlyForCycles ==
    \A t \in Tasks :
        outcome[t].kind = "CircularDependency" =>
            outcome[t].who \in Providers /\ Cyclic(outcome[t].who)

\* C5: _resolving is empty whenever resolve_dependencies returns or raises
\* and whenever it is entered.
C5_ResolvingEmptyAtCallBoundaries ==
    [][\A t \in Tasks :
          /\ (pc[t] = "top" /\ pc'[t] \in {"merge", "done"}) => resolving' = {}
          /\ (pc[t] \in {"idle", "done"} /\ pc'[t] = "top") => resolving = {}]_vars

\* Every marker parameter of the task's handler is in data with the value
\* resolved for its provider.
Injected(t) ==
    \A n \in Markers(HandlerSig(callback[t])) :
        /\ HandlerSig(callback[t])[n].name \in DOMAIN resolved_deps[t]
        /\ HandlerSig(callback[t])[n].name \in DOMAIN data[t]
        /\ data[t][HandlerSig(callback[t])[n].name]
              = resolved_deps[t][HandlerSig(callback[t])[n].name]

\* C6: the resolved values are in data when the handler is called, and when
\* the handler raises the middleware call ends with the handler's error and
\* the values are still in data.
C6_HandlerErrorSurfacesDepsInjected ==
    \A t \in Tasks :
        /\ pc[t] = "handler" => Injected(t)
        /\ (pc[t] = "done" /\ handler_result[t].kind = "HandlerError") =>
              /\ outcome[t] = handler_result[t]
              /\ Injected(t)

C6_Witness ==
    \E t \in Tasks :
        /\ pc[t] = "done"
        /\ handler_result[t].kind = "HandlerError"
        /\ callback[t] = "service"

\* The handler's batch opens a resource and a later marker's provider raises.
PartialFailure(h) ==
    \E a, b \in Markers(HandlerSig(h)) :
        /\ a < b
        /\ HandlerSig(h)[a].dep \in Providers
        /\ Resource(Shape(HandlerSig(h)[a].dep))
        /\ HandlerSig(h)[b].dep \in Providers
        /\ InvokeOutcomes(HandlerSig(h)[b].dep) = {"raise"}

\* C7: when a marker after a resource-opening one raises, the call ends with
\* the provider's error and every handle of the batch was finalized exactly
\* once.
C7_PartialBatchFinalizedOnce ==
    \A t \in Tasks :
        (pc[t] = "done" /\ PartialFailure(callback[t])) =>
            /\ outcome[t].kind = "ProviderError"
            /\ HandlesOf(t) # {}
            /\ \A h \in HandlesOf(t) : handles[h].fin = 1

\* The values resolved so far for the REQUEST markers of sig, in the dict d.
RequestValues(sig, d) ==
    {d[sig[n].name] : n \in {m \in Markers(sig) :
        sig[m].scope = "REQUEST" /\ sig[m].name \in DOMAIN d}} \ {NoneVal}

\* C8: get(p, REQUEST, k) is the value last set under (p, REQUEST, k), and a
\* REQUEST value a call receives was produced under the call's own key.
C8_RequestIsolatedByKey ==
    /\ \A n \in 1..Len(setlog) :
          (setlog[n].scope = "REQUEST" /\ LastForKey(n)) =>
              get_dependency(cache, setlog[n].dep, "REQUEST", setlog[n].key)
                  = setlog[n].val
    /\ \A t \in Tasks :
          /\ \A v \in RequestValues(HandlerSig(callback[t]), resolved_deps[t]) :
                v.k = cache_key[t]
          /\ \A n \in 1..Len(stack[t]) :
                \A v \in RequestValues(Sig(stack[t][n].dep), stack[t][n].dep_kwargs) :
                    v.k = cache_key[t]

C8_Witness ==
    \E t, u \in Tasks :
        /\ cache_key[t] # cache_key[u]
        /\ pc[t] = "done" /\ pc[u] = "done"
        /\ callback[t] = "service" /\ callback[u] = "service"
        /\ "service" \in DOMAIN resolved_deps[t]
        /\ "service" \in DOMAIN resolved_deps[u]
        /\ resolved_deps[t]["service"] # resolved_deps[u]["service"]
        /\ \E n, m \in 1..Len(setlog) :
              /\ setlog[n].val = resolved_deps[t]["service"]
              /\ setlog[m].val = resolved_deps[u]["service"]

\* C9: get(p, SINGLETON, k2) is the value last set for p with SINGLETON
\* scope, whatever key it was set under.
C9_SingletonIgnoresKey ==
    \A n \in 1..Len(setlog) :
        (setlog[n].scope = "SINGLETON" /\ LastForAnyKey(n)) =>
            \A k \in Keys :
                get_dependency(cache, setlog[n].dep, "SINGLETON", k) = setlog[n].val

\* A call under one key received the singleton set under another key.
C9_Witness ==
    \E t \in Tasks :
        /\ pc[t] = "done"
        /\ "config" \in DOMAIN resolved_deps[t]
        /\ resolved_deps[t]["config"].p = "get_config"
        /\ resolved_deps[t]["config"].k # cache_key[t]
        /\ \E n \in 1..Len(setlog) :
              /\ setlog[n].val = resolved_deps[t]["config"]
              /\ setlog[n].scope = "SINGLETON"
              /\ setlog[n].key # cache_key[t]

\* The values the task's call resolved for the TRANSIENT markers of its
\* handler, with the parameter each is for.
TransientResolved(t) ==
    {<<t, n, resolved_deps[t][HandlerSig(callback[t])[n].name]>> :
        n \in {m \in Markers(HandlerSig(callback[t])) :
            /\ HandlerSig(callback[t])[m].scope = "TRANSIENT"
            /\ HandlerSig(callback[t])[m].name \in DOMAIN resolved_deps[t]}}

\* C10: get with TRANSIENT scope is absent, no entry of the store comes from
\* a TRANSIENT write, and each resolution of a TRANSIENT marker yields the
\* value of an invocation of its own: not a stored one, not another's.
C10_TransientNeverCached ==
    /\ \A p \in Providers, k \in Keys :
          get_dependency(cache, p, "TRANSIENT", k) = NoneVal
    /\ \A s \in DOMAIN cache :
          \E n \in 1..Len(setlog) :
              /\ setlog[n].scope # "TRANSIENT"
              /\ Slot(setlog[n].dep, setlog[n].scope, setlog[n].key) = s
    /\ LET fresh == UNION {TransientResolved(t) : t \in Tasks} IN
          \A x \in fresh :
              /\ \A s \in DOMAIN cache : cache[s] # x[3]
              /\ \A y \in fresh : x[3] = y[3] => x = y

\* Two calls under the same key each resolved the TRANSIENT token.
C10_Witness ==
    \E t, u \in Tasks :
        /\ t # u
        /\ cache_key[t] = cache_key[u]
        /\ pc[t] = "done" /\ pc[u] = "done"
        /\ \E x \in TransientResolved(t), y \in TransientResolved(u) :
              x[3].p = "get_token" /\ y[3].p = "get_token"

\* The task has entered resolve_dependencies for its event.
Called(t) == pc[t] # "idle"

\* C11: the cache key of a call is "user_<u>" when the event has a sender u,
\* with or without a chat, "chat_<c>" when it has no sender but a chat c,
\* the token "global" when it has neither; calls for the same event have
\* the same key.
C11_CacheKeyByPriority ==
    /\ \A t \in Tasks :
          Called(t) =>
              /\ event[t].has_user =>
                    cache_key[t] = [prefix |-> "user", id |-> event[t].user_id]
              /\ (~event[t].has_user /\ event[t].has_chat) =>
                    cache_key[t] = [prefix |-> "chat", id |-> event[t].chat_id]
              /\ (~event[t].has_user /\ ~event[t].has_chat) =>
                    cache_key[t] = [prefix |-> "global", id |-> 0]
    /\ \A t, u \in Tasks :
          (Called(t) /\ Called(u) /\ event[t] = event[u]) =>
              cache_key[t] = cache_key[u]

\* Calls for a chat-only event and for a sender with a chat have been made.
C11_Witness ==
    \E t, u \in Tasks :
        /\ Called(t) /\ event[t] = Chat1 /\ cache_key[t].prefix = "chat"
        /\ Called(u) /\ event[u] = User1 /\ cache_key[u].prefix = "user"

\* No parameter of the handler carries a dependency marker.
NoMarkers(h) == Markers(HandlerSig(h)) = {}

\* The step is one of the task's middleware call.
StepOf(t) == running = t \/ running' = t

\* C12: a call for a handler without markers resolves nothing, leaves data
\* as it was handed in and ends with what the handler returned or raised;
\* none of its steps invokes a provider, registers a handle, or touches the
\* registry or the resolving set.
C12_NoMarkersLeavesDataAlone ==
    [][\A t \in Tasks :
          NoMarkers(callback'[t]) =>
              /\ pc'[t] \in {"merge", "handler", "done"} =>
                    /\ resolved_deps'[t] = EmptyDict
                    /\ pc'[t] # "merge" => data'[t] = InitData
              /\ pc'[t] = "done" =>
                    /\ outcome'[t] = handler_result'[t]
                    /\ outcome'[t].kind \in {"HandlerResult", "HandlerError"}
                    /\ outcome'[t].who = callback'[t]
              /\ StepOf(t) =>
                    UNCHANGED <<ncalls, handles, active_contexts, cache,
                                resolving, setlog>>]_vars

\* A call for the handler without markers returned the handler's result
\* while the other call had invoked providers.
C12_Witness ==
    \E t \in Tasks :
        /\ pc[t] = "done"
        /\ callback[t] = "plain"
        /\ outcome[t] = Exc("HandlerResult", "plain")
        /\ data[t] = InitData
        /\ setlog # <<>>

\* The task's cleanup pass has gone through its item list and is about to
\* return to the finally block.
PassOver(t) ==
    /\ pc[t] = "top" /\ stack[t] # <<>>
    /\ Top(t).phase = "cleanup" /\ Top(t).snap = <<>>

Tracked(h) == \E n \in 1..Len(active_contexts) : active_contexts[n].h = h

\* C13: when a cleanup pass returns, the finalize step of every handle of
\* its item list was called, the handles whose step succeeded are no longer
\* in active_contexts, every failure is in the errors list, and no finalize
\* error has left the pass: not into the frame, not into the call's outcome.
C13_TeardownPassCompletes ==
    \A t \in Tasks :
        /\ outcome[t].kind # "FinalizeError"
        /\ \A n \in 1..Len(stack[t]) : stack[t][n].exc.kind # "FinalizeError"
        /\ PassOver(t) =>
              /\ \A n \in 1..Len(Top(t).all) : Top(t).all[n].h \in Top(t).tried
              /\ \A h \in Top(t).tried \ Top(t).failed : ~Tracked(h)
              /\ Top(t).errors >= Cardinality(Top(t).failed)

\* A pass over two handles returned: the finalize step of one raised, that
\* of the other succeeded.
C13_Witness ==
    \E t \in Tasks :
        /\ PassOver(t)
        /\ Len(Top(t).all) >= 2
        /\ Top(t).failed # {}
        /\ Top(t).tried \ Top(t).failed # {}

\* A cleanup pass has run the handle's finalize step to its end.
StepRan(h) == handles[h].st \in {"closed", "failed"}

\* C14: once a pass has run the finalize step of a handle, whether the step
\* succeeded or raised, no later pass runs a finalize step on that handle
\* or changes it.
C14_SecondPassFinalizesNothing ==
    [][\A h \in 1..Len(handles) : StepRan(h) => handles'[h] = handles[h]]_vars

\* The provider was resolved successfully with this scope (for REQUEST:
\* under this key): its value was written to the registry.
Stored(dep, scope, key) ==
    /\ scope \in {"SINGLETON", "REQUEST"}
    /\ \E n \in 1..Len(setlog) :
          /\ setlog[n].dep = dep
          /\ setlog[n].scope = scope
          /\ scope = "REQUEST" => setlog[n].key = key

\* C15: a resolution of a SINGLETON or REQUEST provider that was resolved
\* successfully before (REQUEST: under the same key) does not get past the
\* cache check: it adds nothing to _resolving and goes on to no invocation.
C15_StoredProviderNotResolvedAgain ==
    [][\A t \in Tasks :
          SingleAddLock(t) => ~Stored(Top(t).dep, Top(t).scope, cache_key[t])]_vars

\* C16: active_contexts holds at most one handle per (provider, cache key),
\* and every handle whose finalize step has not succeeded is still in it: a
\* handle is not pushed out by the registration of another provider's handle
\* under the same cache key.
C16_NoHandleLostOnRegister ==
    /\ \A n, m \in 1..Len(active_contexts) :
          (/\ handles[active_contexts[n].h].prov = handles[active_contexts[m].h].prov
           /\ handles[active_contexts[n].h].key = handles[active_contexts[m].h].key)
              => n = m
    /\ \A h \in 1..Len(handles) : handles[h].st # "closed" => Tracked(h)

\* C17: the handles on which a cleanup pass of a call runs (or re-enters) the
\* finalize step are handles the same call opened.
C17_TeardownTouchesOwnHandlesOnly ==
    \A t \in Tasks :
        \A n \in 1..Len(stack[t]) :
            \A h \in stack[t][n].tried : handles[h].cyc = cyc[t]

\* The errors a resolution can fail with: raised by the provider, by
\* inspect.signature, by the interpreter on the nested call.
ResolutionErrors == {"ProviderError", "TypeError", "RecursionError"}

\* The task's innermost resolution has failed: its error is on the way out.
Failing(t) == pc[t] = "top" /\ stack[t] # <<>> /\ Top(t).exc # NoExc

\* C18: a failed resolution writes nothing to the registry and changes none
\* of its entries; its error goes unchanged to its caller, frame by frame,
\* and ends the middleware call: no mapping is merged into data and the
\* handler is not called.
C18_FailurePropagatesUncached ==
    [][\A t \in Tasks :
          /\ (Failing(t) /\ StepOf(t)) =>
                /\ cache' = cache /\ setlog' = setlog
                /\ \/ /\ stack'[t] # <<>>
                      /\ stack'[t][Len(stack'[t])].exc = Top(t).exc
                   \/ /\ stack'[t] = <<>>
                      /\ pc'[t] = "done"
                      /\ outcome'[t] = Top(t).exc
          /\ (pc'[t] = "done" /\ outcome'[t].kind \in ResolutionErrors) =>
                /\ data'[t] = InitData
                /\ handler_result'[t] = NoExc]_vars

\* The call for the report handler ended with the TypeError of get_report's
\* parameter; the value of get_service, resolved before, is still stored and
\* nothing is stored for get_report.
C18_Witness ==
    \E t \in Tasks :
        /\ pc[t] = "done"
        /\ callback[t] = "report"
        /\ outcome[t].kind = "TypeError"
        /\ "service" \in DOMAIN resolved_deps[t]
        /\ resolved_deps[t]["service"] # NoneVal
        /\ get_dependency(cache, "get_service", "REQUEST", cache_key[t])
              = resolved_deps[t]["service"]
        /\ get_dependency(cache, "get_report", "REQUEST", cache_key[t]) = NoneVal

\* The markers of sig before position idx that have no provider.
AbsentBefore(sig, idx) == {n \in Markers(sig) : n < idx /\ sig[n].dep = "None"}

\* C19: a marker without a provider gives its parameter None, on a handler
\* and on a provider alike: no resolution is started for it and no call
\* fails on it.
C19_AbsentProviderGivesNone ==
    \A t \in Tasks :
        /\ \A n \in AbsentBefore(HandlerSig(callback[t]), i[t]) :
              /\ HandlerSig(callback[t])[n].name \in DOMAIN resolved_deps[t]
              /\ resolved_deps[t][HandlerSig(callback[t])[n].name] = NoneVal
        /\ \A k \in 1..Len(stack[t]) :
              /\ stack[t][k].dep # "None"
              /\ stack[t][k].dep \in Providers =>
                    \A n \in AbsentBefore(Sig(stack[t][k].dep), stack[t][k].idx) :
                        /\ Sig(stack[t][k].dep)[n].name \in DOMAIN stack[t][k].dep_kwargs
                        /\ stack[t][k].dep_kwargs[Sig(stack[t][k].dep)[n].name] = NoneVal
        /\ outcome[t].kind # "TypeError"

\* The handles whose first-yielded or entered value the task's handler is
\* handed through its marker parameters.
HandedHandles(t) ==
    {data[t][HandlerSig(callback[t])[n].name].h :
        n \in {m \in Markers(HandlerSig(callback[t])) :
                 HandlerSig(callback[t])[m].name \in DOMAIN data[t]}} \ {0}

\* C20: while a handler runs, the handle behind every resource value it was
\* handed is open, whether the value was resolved in this call or came from
\* the registry.
C20_HandedValuesHaveOpenHandles ==
    \A t \in Tasks :
        pc[t] = "handler" =>
            \A h \in HandedHandles(t) : handles[h].st = "open"

====
